---- MODULE Spec2Model ----
(***************************************************************************)
(* Ghosty Posty: the markdown conversion engine (markdown-converter.ts),   *)
(* the front-matter metadata resolver and the archiving of a note          *)
(* (main.ts), the publish attempt and the form of the modal                *)
(* (publish-modal.ts) and the methods of the Ghost client (ghost-api.ts).  *)
(*                                                                         *)
(* Text is a sequence of one-character strings, so that the regular        *)
(* expressions of the source are scanned character by character.           *)
(***************************************************************************)
EXTENDS Integers, Sequences, FiniteSets, TLC

VARIABLES parts, markdown, conv, frontmatter, defaultStatus, now, meta, modal,
          html, urlMap, replaced, stripResult, plugin, api, invocations

vars == <<parts, markdown, conv, frontmatter, defaultStatus, now, meta, modal,
          html, urlMap, replaced, stripResult, plugin, api, invocations>>

(***************************************************************************)
(* JavaScript string primitives                                            *)
(***************************************************************************)

\* String.prototype.slice(from) / substring(from): the text from 1-based
\* position i to the end.
Drop(s, i) == IF i > Len(s) THEN <<>> ELSE SubSeq(s, i, Len(s))

\* String.prototype.startsWith at 1-based position i.
StartsWithAt(s, i, p) ==
    /\ i + Len(p) - 1 <= Len(s)
    /\ \A k \in 1..Len(p) : s[i + k - 1] = p[k]

\* The least element of a non-empty set of positions.
MinOf(S) == CHOOSE x \in S : \A y \in S : x <= y

\* String.prototype.includes
Includes(s, p) == \E i \in 1..(Len(s) + 1) : StartsWithAt(s, i, p)

\* The characters String.prototype.trim removes.
IsSpace(c) == c \in {" ", "\t", "\n", "\r"}

\* line.trim() !== ''
TrimNonEmpty(s) == \E i \in 1..Len(s) : ~IsSpace(s[i])

\* The first position >= i holding a character of the set stop,
\* Len(s) + 1 when there is none: the end of a greedy run [^stop]*.
RunEnd(s, i, stop) ==
    LET found == {k \in i..Len(s) : s[k] \in stop}
    IN  IF found = {} THEN (IF i > Len(s) THEN i ELSE Len(s) + 1)
        ELSE MinOf(found)

\* split(/\r?\n/): the lines of s; always at least one line.
NewlinesOf(s) == {k \in 1..Len(s) : s[k] = "\n"}

SplitLines(s) ==
    LET nl == NewlinesOf(s)
        n == Cardinality(nl)
        pos(j) == CHOOSE k \in nl : Cardinality({m \in nl : m < k}) = j - 1
        from(j) == IF j = 1 THEN 1 ELSE pos(j - 1) + 1
        to(j) == IF j = n + 1 THEN Len(s)
                 ELSE IF pos(j) - 1 >= from(j) /\ s[pos(j) - 1] = "\r"
                      THEN pos(j) - 2
                      ELSE pos(j) - 1
    IN  [j \in 1..(n + 1) |-> SubSeq(s, from(j), to(j))]

\* Array.prototype.join('\n')
RECURSIVE JoinLines(_)
JoinLines(ls) ==
    IF Len(ls) = 0 THEN <<>>
    ELSE IF Len(ls) = 1 THEN ls[1]
    ELSE ls[1] \o <<"\n">> \o JoinLines(Tail(ls))

\* String.prototype.toLowerCase on the letters the notes use.
LowerChar(c) ==
    CASE c = "P" -> "p" [] c = "N" -> "n" [] c = "G" -> "g"
      [] c = "J" -> "j" [] c = "T" -> "t" [] c = "S" -> "s"
      [] OTHER -> c

ToLowerCase(s) == [i \in 1..Len(s) |-> LowerChar(s[i])]

\* The absent value: null / undefined.
Null == [null |-> TRUE]

(***************************************************************************)
(* markdown-converter.ts                                                   *)
(***************************************************************************)

\* The position after the optional \r and optional \n that may follow at i.
AfterOptNewline(s, i) ==
    LET j == IF i <= Len(s) /\ s[i] = "\r" THEN i + 1 ELSE i
    IN  IF j <= Len(s) /\ s[j] = "\n" THEN j + 1 ELSE j

\* \r?\n--- matched at position j: the position after it, 0 when no match.
ClosingAt(s, j) ==
    IF StartsWithAt(s, j, <<"\r", "\n", "-", "-", "-">>) THEN j + 5
    ELSE IF StartsWithAt(s, j, <<"\n", "-", "-", "-">>) THEN j + 4
    ELSE 0

\* The lazy [\s\S]*? : the first position >= j where the closing matches.
FirstClosing(s, j) ==
    LET found == {k \in j..Len(s) : ClosingAt(s, k) # 0}
    IN  IF found = {} THEN 0 ELSE ClosingAt(s, MinOf(found))

\* The length of the match of /^---\r?\n[\s\S]*?\r?\n---\r?\n?/, 0 if none.
FrontmatterMatchLength(s) ==
    LET open == IF StartsWithAt(s, 1, <<"-", "-", "-", "\r", "\n">>) THEN 6
                ELSE IF StartsWithAt(s, 1, <<"-", "-", "-", "\n">>) THEN 5
                ELSE 0
        close == IF open = 0 THEN 0 ELSE FirstClosing(s, open)
    IN  IF close = 0 THEN 0 ELSE AfterOptNewline(s, close) - 1

stripFrontmatter(md) ==
    LET n == FrontmatterMatchLength(md)
    IN  [content |-> Drop(md, n + 1), frontmatterEndIndex |-> n]

isLocalPath(path) ==
    /\ ~StartsWithAt(path, 1, <<"h", "t", "t", "p", ":", "/", "/">>)
    /\ ~StartsWithAt(path, 1, <<"h", "t", "t", "p", "s", ":", "/", "/">>)
    /\ ~StartsWithAt(path, 1, <<"d", "a", "t", "a", ":">>)

\* The 0-based index of the first line whose trim() is not empty, -1 if none.
RECURSIVE FirstNonEmptyFrom(_, _)
FirstNonEmptyFrom(lines, i) ==
    IF i > Len(lines) THEN -1
    ELSE IF TrimNonEmpty(lines[i]) THEN i - 1
    ELSE FirstNonEmptyFrom(lines, i + 1)

firstContentLineIndex(content) == FirstNonEmptyFrom(SplitLines(content), 1)

\* content.substring(0, index).split(/\r?\n/).length - 1, index 1-based here.
lineNumber(content, i) == Len(SplitLines(SubSeq(content, 1, i - 1))) - 1

NoMatch == [ok |-> FALSE]

\* /!\[([^\]]*)\]\(([^)]+)\)/ anchored at position i.
markdownImageRegex(s, i) ==
    IF ~StartsWithAt(s, i, <<"!", "[">>) THEN NoMatch
    ELSE LET a == RunEnd(s, i + 2, {"]"})
         IN  IF ~StartsWithAt(s, a, <<"]", "(">>) THEN NoMatch
             ELSE LET b == RunEnd(s, a + 2, {")"})
                  IN  IF b > Len(s) \/ b = a + 2 THEN NoMatch
                      ELSE [ok |-> TRUE,
                            whole |-> SubSeq(s, i, b),
                            g1 |-> SubSeq(s, i + 2, a - 1),
                            g2 |-> SubSeq(s, a + 2, b - 1),
                            next |-> b + 1]

\* The expression without its optional group, /\[\[([^\]|]+)\]\]/.
wikiLinkRegex_TargetOnly(s, i) ==
    IF ~StartsWithAt(s, i, <<"[", "[">>) THEN NoMatch
    ELSE LET a == RunEnd(s, i + 2, {"]", "|"})
         IN  IF a = i + 2 \/ ~StartsWithAt(s, a, <<"]", "]">>) THEN NoMatch
             ELSE [ok |-> TRUE,
                   whole |-> SubSeq(s, i, a + 1),
                   g1 |-> SubSeq(s, i + 2, a - 1),
                   g2 |-> <<>>,
                   hasG2 |-> FALSE,
                   next |-> a + 2]

\* /\[\[([^\]|]+)(?:\|([^\]]+))?\]\]/ anchored at position i; hasG2 tells
\* whether the optional group took part in the match (else g2 is undefined).
wikiLinkRegex(s, i) ==
    IF ~StartsWithAt(s, i, <<"[", "[">>) THEN NoMatch
    ELSE LET a == RunEnd(s, i + 2, {"]", "|"})
         IN  IF a = i + 2 THEN NoMatch
             ELSE IF StartsWithAt(s, a, <<"|">>)
             THEN LET b == RunEnd(s, a + 1, {"]"})
                  IN  IF b = a + 1 \/ ~StartsWithAt(s, b, <<"]", "]">>)
                      THEN NoMatch
                      ELSE [ok |-> TRUE,
                            whole |-> SubSeq(s, i, b + 1),
                            g1 |-> SubSeq(s, i + 2, a - 1),
                            g2 |-> SubSeq(s, a + 1, b - 1),
                            hasG2 |-> TRUE,
                            next |-> b + 2]
             ELSE IF StartsWithAt(s, a, <<"]", "]">>)
             THEN [ok |-> TRUE,
                   whole |-> SubSeq(s, i, a + 1),
                   g1 |-> SubSeq(s, i + 2, a - 1),
                   g2 |-> <<>>,
                   hasG2 |-> FALSE,
                   next |-> a + 2]
             ELSE NoMatch

\* path.split('.').pop()?.toLowerCase() || ''
LastDot(path, i) ==
    LET dots == {k \in 1..i : path[k] = "."}
    IN  IF dots = {} THEN 0 ELSE CHOOSE k \in dots : \A m \in dots : m <= k

extension(path) == ToLowerCase(Drop(path, LastDot(path, Len(path)) + 1))

imageExtensions ==
    { <<"p", "n", "g">>, <<"j", "p", "g">>, <<"j", "p", "e", "g">>,
      <<"g", "i", "f">>, <<"w", "e", "b", "p">>, <<"s", "v", "g">>,
      <<"b", "m", "p">> }

\* An expression that matches only the embeds of image files.
embedImageRegex_ImagesOnly(s, i) ==
    IF ~StartsWithAt(s, i, <<"!">>) THEN NoMatch
    ELSE LET m == wikiLinkRegex(s, i + 1)
         IN  IF ~m.ok \/ extension(m.g1) \notin imageExtensions THEN NoMatch
             ELSE [m EXCEPT !.whole = <<"!">> \o m.whole]

\* /!\[\[([^\]|]+)(?:\|([^\]]+))?\]\]/ anchored at position i.
embedImageRegex(s, i) ==
    IF ~StartsWithAt(s, i, <<"!">>) THEN NoMatch
    ELSE LET m == wikiLinkRegex(s, i + 1)
         IN  IF ~m.ok THEN NoMatch
             ELSE [m EXCEPT !.whole = <<"!">> \o m.whole]

\* The while loop over markdownImageRegex.exec(content).
RECURSIVE markdownImagePass(_, _, _)
markdownImagePass(content, from, first) ==
    LET found == {k \in from..Len(content) : markdownImageRegex(content, k).ok}
    IN  IF found = {} THEN <<>>
        ELSE LET i == MinOf(found)
                 m == markdownImageRegex(content, i)
             IN  (IF isLocalPath(m.g2)
                   THEN << [originalSyntax |-> m.whole,
                            path |-> m.g2,
                            alt |-> m.g1,
                            isEmbed |-> FALSE,
                            isFirstLine |-> lineNumber(content, i) = first] >>
                   ELSE <<>>)
                  \o markdownImagePass(content, m.next, first)

\* The while loop over embedImageRegex.exec(content).
RECURSIVE embedImagePass(_, _, _)
embedImagePass(content, from, first) ==
    LET found == {k \in from..Len(content) : embedImageRegex(content, k).ok}
    IN  IF found = {} THEN <<>>
        ELSE LET i == MinOf(found)
                 m == embedImageRegex(content, i)
             IN  (IF extension(m.g1) \in imageExtensions
                   THEN << [originalSyntax |-> m.whole,
                            path |-> m.g1,
                            alt |-> IF ~m.hasG2 THEN <<>> ELSE m.g2,
                            isEmbed |-> TRUE,
                            isFirstLine |-> lineNumber(content, i) = first] >>
                   ELSE <<>>)
                  \o embedImagePass(content, m.next, first)

\* The two passes run in the other order.
extractAllImages_EmbedsFirst(md) ==
    LET content == stripFrontmatter(md).content
        first == firstContentLineIndex(content)
    IN  embedImagePass(content, 1, first) \o markdownImagePass(content, 1, first)

extractAllImages(md) ==
    LET content == stripFrontmatter(md).content
        first == firstContentLineIndex(content)
    IN  markdownImagePass(content, 1, first) \o embedImagePass(content, 1, first)

\* markdown.replace(/\[\[...\]\]/g, (_, link, display) => display || link)
RECURSIVE convertWikiLinksFrom(_, _)
convertWikiLinksFrom(s, from) ==
    LET found == {k \in from..Len(s) : wikiLinkRegex(s, k).ok}
    IN  IF found = {} THEN Drop(s, from)
        ELSE LET i == MinOf(found)
                 m == wikiLinkRegex(s, i)
             IN  SubSeq(s, from, i - 1)
                 \o (IF ~m.hasG2 THEN m.g1 ELSE m.g2)
                 \o convertWikiLinksFrom(s, m.next)

convertWikiLinks(s) == convertWikiLinksFrom(s, 1)

\* markdown.replace(/!\[\[...\]\]/g, (_, path, alt) => `![${alt || ''}](${path})`)
RECURSIVE convertImageEmbedsFrom(_, _)
convertImageEmbedsFrom(s, from) ==
    LET found == {k \in from..Len(s) : embedImageRegex(s, k).ok}
    IN  IF found = {} THEN Drop(s, from)
        ELSE LET i == MinOf(found)
                 m == embedImageRegex(s, i)
             IN  SubSeq(s, from, i - 1)
                 \o <<"!", "[">> \o (IF ~m.hasG2 THEN <<>> ELSE m.g2)
                 \o <<"]", "(">> \o m.g1 \o <<")">>
                 \o convertImageEmbedsFrom(s, m.next)

convertImageEmbeds(s) == convertImageEmbedsFrom(s, 1)

\* allImages.find(img => img.isFirstLine) || null
RECURSIVE findFirstLine(_)
findFirstLine(imgs) ==
    IF Len(imgs) = 0 THEN Null
    ELSE IF Head(imgs).isFirstLine THEN Head(imgs)
    ELSE findFirstLine(Tail(imgs))

\* allImages.filter(img => !img.isFirstLine)
RECURSIVE filterNotFirstLine(_)
filterNotFirstLine(imgs) ==
    IF Len(imgs) = 0 THEN <<>>
    ELSE (IF Head(imgs).isFirstLine THEN <<>> ELSE <<Head(imgs)>>)
         \o filterNotFirstLine(Tail(imgs))

\* The images returned unfiltered.
contentImagesOf_KeepAll(allImages, featuredImage) == allImages

contentImagesOf(allImages, featuredImage) ==
    IF featuredImage # Null THEN filterNotFirstLine(allImages) ELSE allImages

\* lines.filter((line, index) => !(index === firstNonEmptyIndex &&
\*                                 line.includes(featuredImage.originalSyntax)))
RECURSIVE filterFeaturedLine(_, _, _, _)
filterFeaturedLine(lines, i, firstNonEmptyIndex, syntax) ==
    IF i > Len(lines) THEN <<>>
    ELSE (IF i - 1 = firstNonEmptyIndex /\ Includes(lines[i], syntax)
          THEN <<>> ELSE <<lines[i]>>)
         \o filterFeaturedLine(lines, i + 1, firstNonEmptyIndex, syntax)

removeFeaturedLine(content, featuredImage) ==
    IF featuredImage = Null THEN content
    ELSE LET lines == SplitLines(content)
         IN  JoinLines(filterFeaturedLine(lines, 1, FirstNonEmptyFrom(lines, 1),
                                          featuredImage.originalSyntax))

\* The wiki links flattened before the embeds are normalized.
convertMarkdownToHtml_LinksFirst(md) ==
    LET allImages == extractAllImages(md)
        featuredImage == findFirstLine(allImages)
        contentImages == contentImagesOf(allImages, featuredImage)
        stripped == stripFrontmatter(md).content
        removed == removeFeaturedLine(stripped, featuredImage)
        embedded == convertWikiLinks(removed)
        processed == convertImageEmbeds(embedded)
    IN  [stripped |-> stripped,
         removed |-> removed,
         embedded |-> embedded,
         processed |-> processed,
         warnings |-> <<>>,
         images |-> contentImages,
         featuredImage |-> featuredImage]

\* convertMarkdownToHtml up to the call of the renderer: processed is the
\* text handed to Showdown's makeHtml; stripped, removed and embedded are
\* the values of `processed` after front-matter stripping, after
\* featured-line removal and after convertImageEmbeds.
convertMarkdownToHtml(md) ==
    LET allImages == extractAllImages(md)
        featuredImage == findFirstLine(allImages)
        contentImages == contentImagesOf(allImages, featuredImage)
        stripped == stripFrontmatter(md).content
        removed == removeFeaturedLine(stripped, featuredImage)
        embedded == convertImageEmbeds(removed)
        processed == convertWikiLinks(embedded)
    IN  [stripped |-> stripped,
         removed |-> removed,
         embedded |-> embedded,
         processed |-> processed,
         warnings |-> <<>>,
         images |-> contentImages,
         featuredImage |-> featuredImage]

(***************************************************************************)
(* main.ts: getPostMetadata.  A front-matter value is undefined, a string, *)
(* a string of characters (tags), a string that Date can parse, a number   *)
(* or an array.  A string that Date can parse carries the instant it       *)
(* denotes; form tells how it is written (in local time as in a note, or   *)
(* in the ISO form toISOString produces).                                  *)
(***************************************************************************)
Undefined == [type |-> "undefined"]

Str(s) == [type |-> "string", value |-> s]

Chars(cs) == [type |-> "chars", chars |-> cs]

Num(n) == [type |-> "number", number |-> n]

Arr(items) == [type |-> "array", items |-> items]

DateString(form, t) == [type |-> "datestring", form |-> form, instant |-> t]

\* JavaScript truthiness of a front-matter value.
Truthy(v) ==
    /\ v.type # "undefined"
    /\ ~(v.type = "string" /\ v.value = "")
    /\ ~(v.type = "chars" /\ v.chars = <<>>)
    /\ ~(v.type = "number" /\ v.number = 0)

\* a || b
Or(a, b) == IF Truthy(a) THEN a ELSE b

\* new Date(value): a Date object, invalid when the text is not a date.
NewDate(v) ==
    IF v.type = "datestring" THEN [valid |-> TRUE, time |-> v.instant]
    ELSE [valid |-> FALSE, time |-> 0]

\* The comparison left out: any valid date counts as a future one.
DateAfter_AnyValid(d, n) == d.valid

\* The comparison taken as date >= now.
DateAfter_AtOrAfter(d, n) == d.valid /\ d.time >= n

\* date > now: false for an invalid date (NaN).
DateAfter(d, n) == d.valid /\ d.time > n

\* Whether date.toISOString() throws RangeError: Invalid time value.
toISOStringThrows(d) == ~d.valid

\* date.toISOString() of a valid date.
toISOString(d) == DateString("iso", d.time)

Digits == <<"0", "1", "2", "3", "4", "5", "6", "7", "8", "9">>

\* String(x) of an array element: a string, or a number below ten.
StringOf(v) ==
    CASE v.type = "chars" -> v.chars
      [] v.type = "number" -> <<Digits[v.number + 1]>>
      [] OTHER -> <<>>

\* String.prototype.trim
RECURSIVE TrimStart(_)
TrimStart(s) ==
    IF Len(s) > 0 /\ IsSpace(Head(s)) THEN TrimStart(Tail(s)) ELSE s

RECURSIVE TrimEnd(_)
TrimEnd(s) ==
    IF Len(s) > 0 /\ IsSpace(s[Len(s)])
    THEN TrimEnd(SubSeq(s, 1, Len(s) - 1)) ELSE s

Trim(s) == TrimEnd(TrimStart(s))

\* tags.split(',').map(t => t.trim())
RECURSIVE SplitCommaTrim(_, _, _)
SplitCommaTrim(s, i, cur) ==
    IF i > Len(s) THEN <<Trim(cur)>>
    ELSE IF s[i] = "," THEN <<Trim(cur)>> \o SplitCommaTrim(s, i + 1, <<>>)
    ELSE SplitCommaTrim(s, i + 1, Append(cur, s[i]))

\* The tags of getPostMetadata.
tagsOf(v) ==
    IF ~Truthy(v) THEN <<>>
    ELSE IF v.type = "array" THEN [i \in 1..Len(v.items) |-> StringOf(v.items[i])]
    ELSE IF v.type = "chars" THEN SplitCommaTrim(v.chars, 1, <<>>)
    ELSE <<>>

\* let status = frontmatter?.status || this.settings.defaultStatus
resolveStatus(fm, default) ==
    IF Truthy(fm.status) THEN fm.status.value ELSE default

\* The two keys read in the other order.
scheduledDateOf_DateFirst(fm) == Or(fm.date, fm.publish_date)

\* const scheduledDate = frontmatter?.publish_date || frontmatter?.date
scheduledDateOf(fm) == Or(fm.publish_date, fm.date)

basename == "note"

getPostMetadata(fm, default, clock) ==
    LET title == IF Truthy(fm.title) THEN fm.title.value ELSE basename
        slug == fm.slug
        tags == tagsOf(fm.tags)
        status == resolveStatus(fm, default)
        scheduledDate == scheduledDateOf(fm)
        date == NewDate(scheduledDate)
        future == Truthy(scheduledDate) /\ DateAfter(date, clock)
        past == Truthy(scheduledDate) /\ ~DateAfter(date, clock)
                    /\ status = "published"
    IN  IF past /\ toISOStringThrows(date)
        THEN [threw |-> TRUE]
        ELSE [threw |-> FALSE,
              title |-> title,
              slug |-> slug,
              tags |-> tags,
              status |-> IF future THEN "scheduled" ELSE status,
              publishedAt |-> IF future \/ past THEN toISOString(date)
                              ELSE Undefined]

(***************************************************************************)
(* The notes the converter is run on: a note is a sequence of at most      *)
(* MaxParts pieces of text, parts holds their numbers and markdown the     *)
(* text they make up.                                                      *)
(***************************************************************************)
MaxParts == 3

Pieces ==
    << [kind |-> "blank", text |-> <<"\n">>],
       [kind |-> "blank", text |-> <<" ">>],
       [kind |-> "text",  text |-> <<"x">>],
       [kind |-> "frontmatter",
        text |-> <<"-", "-", "-", "\n", "t", "\n", "-", "-", "-", "\n">>],
       [kind |-> "image", text |-> <<"!", "[", "a", "]", "(", "p", ")">>,
        path |-> <<"p">>, alt |-> <<"a">>, external |-> FALSE],
       [kind |-> "image", text |-> <<"!", "[", "]", "(", "q", ".", "p", "n", "g", ")">>,
        path |-> <<"q", ".", "p", "n", "g">>, alt |-> <<>>, external |-> FALSE],
       [kind |-> "image",
        text |-> <<"!", "[", "e", "]", "(", "h", "t", "t", "p", ":", "/", "/", "u", ")">>,
        path |-> <<"h", "t", "t", "p", ":", "/", "/", "u">>, alt |-> <<"e">>, external |-> TRUE],
       [kind |-> "image",
        text |-> <<"!", "[", "]", "(", "h", "t", "t", "p", "s", ":", "/", "/", "u", ")">>,
        path |-> <<"h", "t", "t", "p", "s", ":", "/", "/", "u">>, alt |-> <<>>, external |-> TRUE],
       [kind |-> "image",
        text |-> <<"!", "[", "]", "(", "d", "a", "t", "a", ":", "u", ")">>,
        path |-> <<"d", "a", "t", "a", ":", "u">>, alt |-> <<>>, external |-> TRUE],
       [kind |-> "embed", text |-> <<"!", "[", "[", "r", ".", "p", "n", "g", "]", "]">>,
        path |-> <<"r", ".", "p", "n", "g">>, alt |-> <<>>,
        external |-> FALSE, imageFile |-> TRUE, bare |-> FALSE],
       [kind |-> "embed",
        text |-> <<"!", "[", "[", "s", ".", "J", "P", "G", "|", "c", "]", "]">>,
        path |-> <<"s", ".", "J", "P", "G">>, alt |-> <<"c">>,
        external |-> FALSE, imageFile |-> TRUE, bare |-> FALSE],
       [kind |-> "embed", text |-> <<"!", "[", "[", "n", ".", "m", "d", "]", "]">>,
        path |-> <<"n", ".", "m", "d">>, alt |-> <<>>,
        external |-> FALSE, imageFile |-> FALSE, bare |-> FALSE],
       [kind |-> "embed",
        text |-> <<"!", "[", "[", "h", "t", "t", "p", "s", ":", "/", "/", "u", ".", "p", "n", "g", "]", "]">>,
        path |-> <<"h", "t", "t", "p", "s", ":", "/", "/", "u", ".", "p", "n", "g">>,
        alt |-> <<>>, external |-> TRUE, imageFile |-> TRUE, bare |-> FALSE],
       [kind |-> "link", text |-> <<"[", "[", "T", "|", "S", "]", "]">>,
        shown |-> <<"S">>],
       [kind |-> "image",
        text |-> <<"!", "[", "m", "]", "(", "v", "\n", "w", ")">>,
        path |-> <<"v", "\n", "w">>, alt |-> <<"m">>, external |-> FALSE],
       [kind |-> "blank", text |-> <<"\r", "\n">>],
       [kind |-> "link", text |-> <<"[", "[", "L", "]", "]">>,
        shown |-> <<"L">>],
       [kind |-> "embed", text |-> <<"!", "[", "[", "p", "n", "g", "]", "]">>,
        path |-> <<"p", "n", "g">>, alt |-> <<>>,
        external |-> FALSE, imageFile |-> FALSE, bare |-> TRUE] >>

RECURSIVE TextOf(_)
TextOf(ps) ==
    IF Len(ps) = 0 THEN <<>> ELSE Pieces[Head(ps)].text \o TextOf(Tail(ps))

Notes == UNION { [1..n -> 1..Len(Pieces)] : n \in 0..MaxParts }

NoResult == [none |-> TRUE]

NoFrontmatter == [title |-> Undefined, slug |-> Undefined, tags |-> Undefined,
                  status |-> Undefined, publish_date |-> Undefined,
                  date |-> Undefined]

\* No publish modal is open.
NoModal == [pc |-> "none"]

\* The plugin has archived nothing.
NoPlugin == [archiveFolder |-> ""]

(***************************************************************************)
(* Conversion of a note: publishCurrentNote reads the note and calls       *)
(* convertMarkdownToHtml on its text.                                      *)
(***************************************************************************)
InitConvert ==
    /\ parts \in Notes
    /\ markdown = TextOf(parts)
    /\ conv = NoResult
    /\ frontmatter = NoFrontmatter
    /\ defaultStatus = "draft"
    /\ now = 1
    /\ meta = NoResult
    /\ modal = NoModal
    /\ html = <<>>
    /\ urlMap = <<>>
    /\ replaced = NoResult
    /\ stripResult = NoResult
    /\ plugin = NoPlugin
    /\ api = NoResult
    /\ invocations = <<>>

ConvertNote ==
    /\ conv = NoResult
    /\ conv' = convertMarkdownToHtml(markdown)
    /\ UNCHANGED <<parts, markdown, frontmatter, defaultStatus, now, meta, modal,
                   html, urlMap, replaced, stripResult, plugin, api,
                   invocations>>

NextConvert == ConvertNote

SpecConvert == InitConvert /\ [][NextConvert]_vars

(***************************************************************************)
(* Resolution of the metadata: publishCurrentNote calls getPostMetadata on *)
(* the front matter of the note, with the configured default status, at    *)
(* the instant now.  Instants are 1..MaxTime.                              *)
(***************************************************************************)
MaxTime == 3

\* type PostStatus
Statuses == {"draft", "published", "scheduled"}

\* The default statuses the settings tab offers.
DefaultStatuses == {"draft", "published"}

StatusValues ==
    {Undefined, Str(""), Str("draft"), Str("published"), Str("scheduled"),
     Str("public")}

DateValues ==
    {Undefined, Str(""), Str("soon")}
        \cup {DateString("local", t) : t \in 1..MaxTime}

TagsValues ==
    {Undefined,
     Arr(<<Chars(<<"a">>), Num(7)>>),
     Arr(<<Chars(<<" ", "b">>), Chars(<<>>)>>),
     Chars(<<"a", ",", " ", "b">>),
     Chars(<<"b", ",", ",", "a", " ">>),
     Num(5)}

Frontmatters ==
    [title : {Undefined, Str("Title")},
     slug : {Undefined, Str("my-slug")},
     tags : TagsValues,
     status : StatusValues,
     publish_date : DateValues,
     date : DateValues]

InitMetadata ==
    /\ parts = <<>>
    /\ markdown = <<>>
    /\ conv = NoResult
    /\ frontmatter \in Frontmatters
    /\ defaultStatus \in DefaultStatuses
    /\ now \in 1..MaxTime
    /\ meta = NoResult
    /\ modal = NoModal
    /\ html = <<>>
    /\ urlMap = <<>>
    /\ replaced = NoResult
    /\ stripResult = NoResult
    /\ plugin = NoPlugin
    /\ api = NoResult
    /\ invocations = <<>>

ResolveMetadata ==
    /\ meta = NoResult
    /\ meta' = getPostMetadata(frontmatter, defaultStatus, now)
    /\ UNCHANGED <<parts, markdown, conv, frontmatter, defaultStatus, now, modal,
                   html, urlMap, replaced, stripResult, plugin, api,
                   invocations>>

NextMetadata == ResolveMetadata

SpecMetadata == InitMetadata /\ [][NextMetadata]_vars

(***************************************************************************)
(* What a note is made of, read off its pieces (not off the scan): the     *)
(* mentions it holds, the line each starts on, the first non-blank line.   *)
(***************************************************************************)

\* The pieces after a leading front-matter block.
ContentParts(ps) ==
    IF Len(ps) > 0 /\ Pieces[ps[1]].kind = "frontmatter" THEN Tail(ps) ELSE ps

NewlinesIn(text) == Cardinality({i \in 1..Len(text) : text[i] = "\n"})

\* The 0-based line on which piece k of ps starts.
RECURSIVE StartLine(_, _)
StartLine(ps, k) ==
    IF k <= 1 THEN 0
    ELSE StartLine(ps, k - 1) + NewlinesIn(Pieces[ps[k - 1]].text)

NonBlankParts(ps) == {k \in 1..Len(ps) : Pieces[ps[k]].kind # "blank"}

HasContentLine(ps) == NonBlankParts(ps) # {}

FirstContentPart(ps) ==
    CHOOSE k \in NonBlankParts(ps) : \A j \in NonBlankParts(ps) : k <= j

OnFirstLine(ps, k) ==
    /\ HasContentLine(ps)
    /\ StartLine(ps, k) = StartLine(ps, FirstContentPart(ps))

IsMention(n) == Pieces[n].kind \in {"image", "embed"}

IsExternal(n) == IsMention(n) /\ Pieces[n].external

\* A mention the extraction takes as a reference: standard syntax with a
\* path that is not external, embed syntax with an image extension (bare
\* tells that the path has no dot and is itself a word of the list, which
\* path.split('.').pop() gives back whole).
IsAccepted(n) ==
    \/ Pieces[n].kind = "image" /\ ~Pieces[n].external
    \/ Pieces[n].kind = "embed" /\ (Pieces[n].imageFile \/ Pieces[n].bare)

\* A mention of a local image.
IsLocalImage(n) == IsAccepted(n) /\ ~Pieces[n].external

RefOf(ps, k) ==
    [originalSyntax |-> Pieces[ps[k]].text,
     path |-> Pieces[ps[k]].path,
     alt |-> Pieces[ps[k]].alt,
     isEmbed |-> Pieces[ps[k]].kind = "embed",
     isFirstLine |-> OnFirstLine(ps, k)]

\* The references of the accepted mentions of one syntax, in text order.
RECURSIVE RefsOfKind(_, _, _)
RefsOfKind(ps, k, kind) ==
    IF k > Len(ps) THEN <<>>
    ELSE (IF Pieces[ps[k]].kind = kind /\ IsAccepted(ps[k])
          THEN <<RefOf(ps, k)>> ELSE <<>>)
         \o RefsOfKind(ps, k + 1, kind)

\* Extraction order: the standard mentions, then the embed mentions.
AcceptedRefs(ps) == RefsOfKind(ps, 1, "image") \o RefsOfKind(ps, 1, "embed")

FirstLineIndexes(refs) == {i \in 1..Len(refs) : refs[i].isFirstLine}

\* The index in refs of the first reference on the first line, 0 if none.
ChosenIndex(refs) ==
    IF FirstLineIndexes(refs) = {} THEN 0
    ELSE CHOOSE i \in FirstLineIndexes(refs) :
            \A j \in FirstLineIndexes(refs) : i <= j

WithoutIndex(seq, i) ==
    IF i = 0 THEN seq
    ELSE SubSeq(seq, 1, i - 1) \o SubSeq(seq, i + 1, Len(seq))

Converted == conv # NoResult

Body == ContentParts(parts)

ImageAt(imgs, ref) == \E i \in 1..Len(imgs) : imgs[i] = ref

(***************************************************************************)
(* Claims about convertMarkdownToHtml                                      *)
(***************************************************************************)

\* C1: images is the sequence of all accepted references in extraction
\* order with exactly the one chosen featured reference removed, so that
\* further accepted mentions of the first line stay in images.
C1_ImagesAreAllButFeatured ==
    Converted =>
        conv.images = WithoutIndex(AcceptedRefs(Body),
                                   ChosenIndex(AcceptedRefs(Body)))

\* C2: a returned featuredImage is not an element of the returned images.
C2_FeaturedNotInImages ==
    (Converted /\ conv.featuredImage # Null) =>
        ~ImageAt(conv.images, conv.featuredImage)

C2_Witness ==
    /\ Converted
    /\ conv.featuredImage # Null
    /\ Len(conv.images) > 0

\* C3: a mention with an external path (http://, https://, data:), in
\* standard or embed syntax, is in neither images nor featuredImage and its
\* syntax is still in the text handed to the renderer.
C3_ExternalUntouched ==
    Converted =>
        \A k \in 1..Len(Body) :
            IsExternal(Body[k]) =>
                /\ \A i \in 1..Len(conv.images) :
                      conv.images[i].path # Pieces[Body[k]].path
                /\ conv.featuredImage # Null =>
                      conv.featuredImage.path # Pieces[Body[k]].path
                /\ Includes(conv.processed, Pieces[Body[k]].text)

\* The mentions of local images that lie on the first non-blank line.
FirstLineLocalImages ==
    {k \in 1..Len(Body) :
        /\ IsLocalImage(Body[k])
        /\ OnFirstLine(Body, k)
        /\ NewlinesIn(Pieces[Body[k]].text) = 0}

OneLocalImageOnFirstLine ==
    /\ Cardinality(FirstLineLocalImages) = 1
    /\ \A k \in 1..Len(Body) :
          (IsLocalImage(Body[k]) /\ OnFirstLine(Body, k))
              => k \in FirstLineLocalImages

\* C4: when the first non-blank line holds exactly one mention of a local
\* image, that mention is featuredImage, is not in images, and the line is
\* no longer in the text handed on.
C4_SingleFirstLineImageFeatured ==
    (Converted /\ OneLocalImageOnFirstLine) =>
        LET k == CHOOSE j \in FirstLineLocalImages : TRUE
            lines == SplitLines(conv.stripped)
        IN  /\ conv.featuredImage = RefOf(Body, k)
            /\ ~ImageAt(conv.images, RefOf(Body, k))
            /\ conv.removed
                 = JoinLines(WithoutIndex(lines, StartLine(Body, k) + 1))
            /\ conv.processed = convertWikiLinks(convertImageEmbeds(conv.removed))

\* C5: featuredImage is the first reference in extraction order (standard
\* mentions, then embed mentions) that starts on the first non-blank line,
\* and null when there is none.
C5_FeaturedIsFirstOnFirstLine ==
    Converted =>
        LET refs == AcceptedRefs(Body)
        IN  IF ChosenIndex(refs) = 0
            THEN conv.featuredImage = Null
            ELSE conv.featuredImage = refs[ChosenIndex(refs)]

\* An embed mention precedes a standard mention on the first line and the
\* standard one is chosen.
C5_Witness ==
    /\ Converted
    /\ conv.featuredImage # Null
    /\ ~conv.featuredImage.isEmbed
    /\ \E k \in 1..Len(Body) :
          /\ Pieces[Body[k]].kind = "embed"
          /\ IsAccepted(Body[k])
          /\ OnFirstLine(Body, k)
          /\ \E j \in (k + 1)..Len(Body) : RefOf(Body, j) = conv.featuredImage

\* A note without any non-blank line has no featured image.
C5_WitnessBlank ==
    /\ Converted
    /\ Len(Body) > 0
    /\ ~HasContentLine(Body)
    /\ conv.featuredImage = Null

(***************************************************************************)
(* Claims about getPostMetadata                                            *)
(***************************************************************************)
Resolved == meta # NoResult

Returned == Resolved /\ ~meta.threw

\* A key that is present with a value: neither absent nor empty.
Present(v) == v # Undefined /\ v # Str("")

\* The date read from the front matter: publish_date, else date.
DateRead ==
    IF Present(frontmatter.publish_date) THEN frontmatter.publish_date
    ELSE frontmatter.date

Parses(v) == v.type = "datestring"

Unparseable(v) == Present(v) /\ ~Parses(v)

WithoutDates(fm) ==
    [fm EXCEPT !.publish_date = Undefined, !.date = Undefined]

\* The status the front matter and the default give, as described: the
\* front-matter status when it is a recognized one, else the default.
DescribedStatus ==
    IF frontmatter.status \in {Str(s) : s \in Statuses}
    THEN frontmatter.status.value
    ELSE defaultStatus

\* C6: with a date value that cannot be parsed, getPostMetadata returns
\* normally, with the result it gives when the date is absent, whatever the
\* status; it never throws.
C6_UnparseableDateIgnored ==
    (Resolved /\ Unparseable(DateRead)) =>
        /\ ~meta.threw
        /\ meta = getPostMetadata(WithoutDates(frontmatter), defaultStatus, now)

\* C7: the status resolved before scheduling is the front-matter status
\* when that is draft, published or scheduled and the default status for any
\* other value; the returned status is one of the three.
C7_StatusRecognizedOrDefault ==
    Resolved =>
        /\ resolveStatus(frontmatter, defaultStatus) = DescribedStatus
        /\ ~meta.threw => meta.status \in Statuses

\* C8 as stated: a returned status scheduled comes with a publishedAt
\* strictly after now.
C8_ScheduledHasFutureDate ==
    (Returned /\ meta.status = "scheduled") =>
        /\ meta.publishedAt # Undefined
        /\ meta.publishedAt.instant > now

\* C8 as amended: a returned status scheduled comes either with a
\* publishedAt strictly after now, or with no publishedAt at all, and then
\* scheduled was the status of the front matter or the default and the date
\* read is not an instant after now.
C8_ScheduledFutureOrDangling ==
    (Returned /\ meta.status = "scheduled") =>
        IF meta.publishedAt # Undefined
        THEN meta.publishedAt.instant > now
        ELSE /\ DescribedStatus = "scheduled"
             /\ ~(Parses(DateRead) /\ DateRead.instant > now)

C8_Witness ==
    /\ Returned
    /\ meta.status = "scheduled"
    /\ meta.publishedAt # Undefined
    /\ DescribedStatus # "scheduled"

\* C9: a date read (publish_date, else date) that parses to an instant
\* strictly after now gives status scheduled and publishedAt that instant,
\* whatever the status of the front matter or the default.
C9_FutureDateSchedules ==
    (Resolved /\ Parses(DateRead) /\ DateRead.instant > now) =>
        /\ ~meta.threw
        /\ meta.status = "scheduled"
        /\ meta.publishedAt = DateString("iso", DateRead.instant)

\* publish_date and date are both present and differ, publish_date is in the
\* future, and the status given was published.
C9_Witness ==
    /\ Returned
    /\ Parses(frontmatter.publish_date)
    /\ Parses(frontmatter.date)
    /\ frontmatter.publish_date.instant > now
    /\ frontmatter.date.instant <= now
    /\ frontmatter.status = Str("published")
    /\ meta.status = "scheduled"

\* C10: with a date read that parses to an instant not after now, a
\* resolved status published keeps its status and takes that instant as
\* publishedAt, a resolved status draft or scheduled keeps its status and has
\* no publishedAt; with no date at all there is no publishedAt.
C10_PastDate ==
    Resolved =>
        LET rs == resolveStatus(frontmatter, defaultStatus)
        IN  /\ (Parses(DateRead) /\ DateRead.instant <= now /\ rs = "published") =>
                  /\ ~meta.threw
                  /\ meta.status = "published"
                  /\ meta.publishedAt = DateString("iso", DateRead.instant)
            /\ (Parses(DateRead) /\ DateRead.instant <= now
                    /\ rs \in {"draft", "scheduled"}) =>
                  /\ ~meta.threw
                  /\ meta.status = rs
                  /\ meta.publishedAt = Undefined
            /\ (frontmatter.publish_date = Undefined
                    /\ frontmatter.date = Undefined) =>
                  /\ ~meta.threw
                  /\ meta.publishedAt = Undefined

\* The date read is the instant now itself and the status is published.
C10_Witness ==
    /\ Returned
    /\ Parses(DateRead)
    /\ DateRead.instant = now
    /\ meta.status = "published"
    /\ meta.publishedAt = DateString("iso", now)

\* C11: every element of the returned tags is a trimmed, non-empty string:
\* a sequence is stringified element by element, a string is split on commas
\* and each segment trimmed, any other value gives no tags; order is kept.
C11_TagsTrimmedNonEmpty ==
    Returned =>
        /\ \A i \in 1..Len(meta.tags) :
              /\ meta.tags[i] # <<>>
              /\ meta.tags[i] = Trim(meta.tags[i])
        /\ frontmatter.tags.type = "array" =>
              /\ Len(meta.tags) = Len(frontmatter.tags.items)
              /\ \A i \in 1..Len(meta.tags) :
                    meta.tags[i] = StringOf(frontmatter.tags.items[i])
        /\ frontmatter.tags.type \in {"undefined", "number"} => meta.tags = <<>>

(***************************************************************************)
(* The publish modal (publish-modal.ts).  A publish attempt starts with a  *)
(* click on Publish and runs publish(): the images are uploaded one after  *)
(* the other, the image paths of the HTML are replaced, the post is        *)
(* created.  The attempt is cut at its awaits; modal.calls is the sequence *)
(* of calls the current attempt has made, in order.                        *)
(***************************************************************************)
MaxImages == 2

MaxAttempts == 2

\* The local paths of the image references and the URLs Ghost answers.
ImagePaths == {"p.png", "q.png"}

GhostUrls == {"https://g/1", "https://g/2"}

\* What happens to one image of the loop of uploadImages.
UploadOutcomes == {"notFound", "unreadable", "rejected", "uploaded"}

Call(op, path, ok) == [op |-> op, path |-> path, ok |-> ok]

\* Map.prototype.set: the value of an existing key is replaced in place, a
\* new key goes last.
MapSet(map, key, value) ==
    IF \E k \in 1..Len(map) : map[k].key = key
    THEN [k \in 1..Len(map) |->
             IF map[k].key = key THEN [key |-> key, value |-> value]
             ELSE map[k]]
    ELSE Append(map, [key |-> key, value |-> value])

\* The images of an attempt, the featured image last.
allImagesOf_FeaturedLast(featuredImage, images) == images \o featuredImage

\* allImages of publish(): the featured image, then the content images.
allImagesOf(featuredImage, images) == featuredImage \o images

\* The calls one iteration of the loop of uploadImages makes for the image
\* at path, by what happens to it.
UploadCalls(path, outcome) ==
    IF outcome = "notFound" THEN <<Call("resolveImagePath", path, FALSE)>>
    ELSE IF outcome = "unreadable"
    THEN <<Call("resolveImagePath", path, TRUE),
           Call("readBinary", path, FALSE)>>
    ELSE <<Call("resolveImagePath", path, TRUE),
           Call("readBinary", path, TRUE),
           Call("uploadImage", path, outcome = "uploaded")>>

\* A publish() that leaves the buttons as they are while it runs.
StartPublish_ButtonsLeftEnabled(m) ==
    [m EXCEPT !.label = "Publishing...",
              !.inFlight = @ + 1,
              !.outcome = "running",
              !.payload = NoResult,
              !.attempts = @ + 1,
              !.calls = <<>>,
              !.i = 0,
              !.urlMap = <<>>,
              !.allImages = allImagesOf(m.featuredImage, m.images),
              !.pc = IF Len(m.allImages) > 0 THEN "uploading" ELSE "posting"]

\* publish() up to its first await: the buttons are disabled and the images
\* collected; without images the attempt goes on to create the post.
\* inFlight counts the calls of publish() that have not returned.
StartPublish(m) ==
    [m EXCEPT !.buttonsEnabled = FALSE,
              !.label = "Publishing...",
              !.inFlight = @ + 1,
              !.allImages = allImagesOf(m.featuredImage, m.images),
              !.outcome = "running",
              !.payload = NoResult,
              !.attempts = @ + 1,
              !.calls = <<>>,
              !.i = 0,
              !.urlMap = <<>>,
              !.pc = IF Len(m.allImages) > 0 THEN "uploading" ELSE "posting"]

\* A loop that goes on to the next image after a failure.
AfterUpload_SkipFailed(m, outcome, url) ==
    LET path == m.allImages[m.i + 1]
        called == [m EXCEPT !.calls = @ \o UploadCalls(path, outcome)]
    IN  [called EXCEPT !.i = @ + 1,
                       !.urlMap = IF outcome = "uploaded"
                                  THEN MapSet(@, path, url) ELSE @,
                       !.pc = IF m.i + 1 = Len(m.allImages)
                              THEN "replacing" ELSE "uploading"]

\* One iteration of the loop of uploadImages, and what publish() does with
\* a failure: the attempt ends and the buttons are enabled again.
AfterUpload(m, outcome, url) ==
    LET path == m.allImages[m.i + 1]
        called == [m EXCEPT !.calls = @ \o UploadCalls(path, outcome)]
    IN  IF outcome # "uploaded"
        THEN [called EXCEPT !.pc = "idle", !.buttonsEnabled = TRUE,
                            !.inFlight = @ - 1,
                            !.label = "Publish", !.outcome = "imageFailed"]
        ELSE [called EXCEPT !.i = @ + 1,
                            !.urlMap = MapSet(@, path, url),
                            !.pc = IF m.i + 1 = Len(m.allImages)
                                   THEN "replacing" ELSE "uploading"]

\* A publish() that leaves the image paths of the HTML as they are.
AfterReplace_NotCalled(m) == [m EXCEPT !.pc = "posting"]

\* publish() after uploadImages succeeded: replaceImageUrls is called with
\* the mapping of the uploads.
AfterReplace(m) ==
    [m EXCEPT !.calls = Append(@, Call("replaceImageUrls", "", TRUE)),
              !.pc = "posting"]

\* The default of the schedule picker, set in onOpen: tomorrow at 9am in
\* local time, the instant after the one the modal opens at.
defaultDate(clock) == DateString("local", clock + 1)

\* publishedAt of publish(): the date of the schedule picker when the status
\* is scheduled and the picker is not empty, else the date of the metadata.
publishedAtOf(m) ==
    IF m.editableStatus = "scheduled" /\ Truthy(m.editableScheduledDate)
    THEN toISOString(NewDate(m.editableScheduledDate))
    ELSE IF Truthy(m.metadata.publishedAt) THEN m.metadata.publishedAt
    ELSE Undefined

\* The status and the published_at of the payload; published_at is
\* undefined when the payload carries none.
payloadOf(m) ==
    [status |-> m.editableStatus, published_at |-> publishedAtOf(m)]

\* publish() from 'Creating post...' to the await of api.createPost.
AfterCreatePost(m) ==
    [m EXCEPT !.calls = Append(@, Call("createPost", "", TRUE)),
              !.payload = payloadOf(m),
              !.pc = "awaiting"]

\* What api.createPost answers: the post, a failure, or success without a
\* post (posts is empty in the response), on which result.post.url throws.
PostAnswers == {"created", "refused", "noPost"}

\* publish() after api.createPost answered: on success onSuccess is called
\* and the modal closes; on failure and in the catch clause the buttons are
\* enabled again.
AfterAnswer(m, answer) ==
    IF answer = "created"
    THEN [m EXCEPT !.onSuccessCalls = @ + 1,
                   !.inFlight = @ - 1,
                   !.pc = "closed", !.outcome = "success"]
    ELSE [m EXCEPT !.pc = "idle", !.buttonsEnabled = TRUE,
                   !.inFlight = @ - 1,
                   !.label = "Publish",
                   !.outcome = IF answer = "refused" THEN "postFailed"
                               ELSE "thrown"]

\* The modal after onOpen, for the metadata of a note and its images.
Modals(metadata, clock) ==
    {[pc |-> "idle", featuredImage |-> f, images |-> im,
      allImages |-> allImagesOf(f, im), i |-> 0, urlMap |-> <<>>,
      calls |-> <<>>, attempts |-> 0, buttonsEnabled |-> TRUE,
      label |-> "Publish", outcome |-> "none", inFlight |-> 0,
      onSuccessCalls |-> 0,
      metadata |-> metadata,
      editableStatus |-> metadata.status,
      editableScheduledDate |-> defaultDate(clock),
      edited |-> FALSE,
      payload |-> NoResult] :
        f \in {<<>>} \cup {<<p>> : p \in ImagePaths},
        im \in UNION {[1..n -> ImagePaths] : n \in 0..MaxImages}}

\* The front matters of the notes that are published: a status or none, a
\* publish_date or none, a date or none.
PublishFrontmatters ==
    [title : {Undefined},
     slug : {Undefined},
     tags : {Undefined},
     status : {Undefined, Str("published"), Str("scheduled")},
     publish_date : {Undefined} \cup {DateString("local", t) : t \in 1..MaxTime},
     date : {Undefined, DateString("local", MaxTime)}]

\* The values the schedule picker can hold: empty, or a date.
PickerValues == {Str("")} \cup {DateString("local", t) : t \in 1..MaxTime}

\* The archive folder of the settings: none, or a folder.
ArchiveFolders == {"", "Published"}

\* archiveNote without the test of the setting: the note is moved even when
\* no archive folder is configured.
archiveCalls_AlwaysMoves(archiveFolder, folderExists, created, renamed) ==
    IF ~folderExists /\ ~created
    THEN <<Call("createFolder", archiveFolder, FALSE)>>
    ELSE (IF ~folderExists THEN <<Call("createFolder", archiveFolder, TRUE)>>
          ELSE <<>>)
         \o <<Call("renameFile", archiveFolder, renamed)>>

\* archiveNote: nothing without an archive folder; else the folder is
\* created when it is missing and the note is renamed into it.  created
\* and renamed tell whether createFolder and renameFile go through.
archiveCalls(archiveFolder, folderExists, created, renamed) ==
    IF archiveFolder = "" THEN <<>>
    ELSE IF ~folderExists /\ ~created
    THEN <<Call("createFolder", archiveFolder, FALSE)>>
    ELSE (IF ~folderExists THEN <<Call("createFolder", archiveFolder, TRUE)>>
          ELSE <<>>)
         \o <<Call("renameFile", archiveFolder, renamed)>>

InitPublish ==
    /\ parts = <<>>
    /\ markdown = <<>>
    /\ conv = NoResult
    /\ frontmatter = NoFrontmatter
    /\ defaultStatus = "draft"
    /\ now = 1
    /\ meta = NoResult
    /\ modal \in {m \in Modals(getPostMetadata(frontmatter, defaultStatus, now),
                                 now) :
                      Len(m.allImages) <= MaxImages}
    /\ html = <<>>
    /\ urlMap = <<>>
    /\ replaced = NoResult
    /\ stripResult = NoResult
    /\ plugin \in [archiveFolder : ArchiveFolders, folderExists : BOOLEAN,
                   pending : {FALSE}, calls : {<<>>}]
    /\ api = NoResult
    /\ invocations = <<>>

\* Publishing a note without images whose front matter names a status and
\* dates, with the form of the modal edited before and between attempts.
InitSchedule ==
    /\ parts = <<>>
    /\ markdown = <<>>
    /\ conv = NoResult
    /\ frontmatter \in PublishFrontmatters
    /\ defaultStatus = "draft"
    /\ now = 1
    /\ meta = NoResult
    /\ modal \in {m \in Modals(getPostMetadata(frontmatter, defaultStatus, now),
                                 now) :
                      Len(m.allImages) = 0}
    /\ html = <<>>
    /\ urlMap = <<>>
    /\ replaced = NoResult
    /\ stripResult = NoResult
    /\ plugin \in [archiveFolder : ArchiveFolders, folderExists : {TRUE},
                   pending : {FALSE}, calls : {<<>>}]
    /\ api = NoResult
    /\ invocations = <<>>

\* The user picks a status in the dropdown.
EditStatus ==
    /\ modal.pc # "closed"
    /\ \E value \in {"draft", "published", "scheduled"} :
          modal' = [modal EXCEPT !.editableStatus = value, !.edited = TRUE]
    /\ UNCHANGED <<parts, markdown, conv, frontmatter, defaultStatus, now, meta,
                   html, urlMap, replaced, stripResult, plugin, api,
                   invocations>>

\* The user changes or clears the schedule picker, shown while the status
\* is scheduled.
EditScheduledDate ==
    /\ modal.pc # "closed"
    /\ modal.editableStatus = "scheduled"
    /\ \E value \in PickerValues :
          modal' = [modal EXCEPT !.editableScheduledDate = value,
                                 !.edited = TRUE]
    /\ UNCHANGED <<parts, markdown, conv, frontmatter, defaultStatus, now, meta,
                   html, urlMap, replaced, stripResult, plugin, api,
                   invocations>>

\* A click on the publish button, which a disabled button does not take.
Publish ==
    /\ modal.buttonsEnabled
    /\ modal.attempts < MaxAttempts
    /\ modal' = StartPublish(modal)
    /\ UNCHANGED <<parts, markdown, conv, frontmatter, defaultStatus, now, meta,
                   html, urlMap, replaced, stripResult, plugin, api,
                   invocations>>

UploadImage ==
    /\ modal.pc = "uploading"
    /\ \E outcome \in UploadOutcomes, url \in GhostUrls :
          modal' = AfterUpload(modal, outcome, url)
    /\ UNCHANGED <<parts, markdown, conv, frontmatter, defaultStatus, now, meta,
                   html, urlMap, replaced, stripResult, plugin, api,
                   invocations>>

ReplaceImageUrls ==
    /\ modal.pc = "replacing"
    /\ modal' = AfterReplace(modal)
    /\ UNCHANGED <<parts, markdown, conv, frontmatter, defaultStatus, now, meta,
                   html, urlMap, replaced, stripResult, plugin, api,
                   invocations>>

CreatePost ==
    /\ modal.pc = "posting"
    /\ modal' = AfterCreatePost(modal)
    /\ UNCHANGED <<parts, markdown, conv, frontmatter, defaultStatus, now, meta,
                   html, urlMap, replaced, stripResult, plugin, api,
                   invocations>>

\* onSuccess of publishCurrentNote starts archiveNote, which runs on its own.
PostAnswered ==
    /\ modal.pc = "awaiting"
    /\ \E answer \in PostAnswers :
          /\ modal' = AfterAnswer(modal, answer)
          /\ plugin' = [plugin EXCEPT !.pending = (answer = "created")]
    /\ UNCHANGED <<parts, markdown, conv, frontmatter, defaultStatus, now, meta,
                   html, urlMap, replaced, stripResult, api,
                   invocations>>

ArchiveNote ==
    /\ plugin.pending
    /\ \E created \in BOOLEAN, renamed \in BOOLEAN :
          plugin' = [plugin EXCEPT
                        !.pending = FALSE,
                        !.calls = archiveCalls(plugin.archiveFolder,
                                               plugin.folderExists,
                                               created, renamed)]
    /\ UNCHANGED <<parts, markdown, conv, frontmatter, defaultStatus, now, meta,
                   modal, html, urlMap, replaced, stripResult, api,
                   invocations>>

NextPublish ==
    \/ Publish
    \/ UploadImage
    \/ ReplaceImageUrls
    \/ CreatePost
    \/ PostAnswered
    \/ ArchiveNote

SpecPublish == InitPublish /\ [][NextPublish]_vars

NextSchedule ==
    \/ EditStatus
    \/ EditScheduledDate
    \/ Publish
    \/ CreatePost
    \/ PostAnswered
    \/ ArchiveNote

SpecSchedule == InitSchedule /\ [][NextSchedule]_vars

(***************************************************************************)
(* Claims about a publish attempt                                          *)
(***************************************************************************)

\* The positions of the calls of an operation in the current attempt.
CallsOf(op) == {k \in 1..Len(modal.calls) : modal.calls[k].op = op}

\* Some image of the attempt could not be resolved, read or uploaded.
ImageFailed == \E k \in 1..Len(modal.calls) : ~modal.calls[k].ok

\* The attempt is over: publish() has returned.
AttemptOver == modal.attempts > 0 /\ modal.pc \in {"idle", "closed"}

\* C12: a publish attempt in which an image cannot be resolved, cannot be
\* read or fails to upload makes no call of replaceImageUrls and no call of
\* createPost, and it ends (publish returns, nothing is left in flight).
C12_FailedImageBlocksPost ==
    (modal.pc # "none" /\ ImageFailed) =>
        /\ CallsOf("replaceImageUrls") = {}
        /\ CallsOf("createPost") = {}
        /\ AttemptOver

\* An attempt whose second image failed to upload, after the first one was
\* uploaded.
C12_Witness ==
    /\ modal.pc = "idle"
    /\ Len(modal.calls) = 6
    /\ modal.calls[3] = Call("uploadImage", modal.allImages[1], TRUE)
    /\ modal.calls[6] = Call("uploadImage", modal.allImages[2], FALSE)

\* The call at position r of the attempt is the only call of
\* replaceImageUrls, every image of the attempt was uploaded before it and
\* createPost was called after it.
ReplacedAt(r) ==
    /\ CallsOf("replaceImageUrls") = {r}
    /\ \A k \in 1..Len(modal.calls) : modal.calls[k].ok
    /\ Cardinality(CallsOf("uploadImage")) = Len(modal.allImages)
    /\ \A k \in CallsOf("uploadImage") : k < r
    /\ \A k \in CallsOf("createPost") : r < k

\* C13: in every publish attempt that reaches createPost, replaceImageUrls
\* has been called exactly once, after every image upload of the attempt
\* succeeded and before createPost.
C13_ReplacedOnceBeforePost ==
    (modal.pc # "none" /\ CallsOf("createPost") # {}) =>
        \E r \in 1..Len(modal.calls) : ReplacedAt(r)

\* C13, amended: the same for an attempt with at least one image; an attempt
\* without images reaches createPost without a call of replaceImageUrls.
C13_ReplacedOnceWhenImages ==
    (modal.pc # "none" /\ CallsOf("createPost") # {}) =>
        IF Len(modal.allImages) > 0
        THEN \E r \in 1..Len(modal.calls) : ReplacedAt(r)
        ELSE modal.calls = <<Call("createPost", "", TRUE)>>

\* createPost was reached after the upload of two images.
C13_Witness ==
    /\ CallsOf("createPost") # {}
    /\ Len(modal.allImages) = 2
    /\ Cardinality(CallsOf("uploadImage")) = 2

(***************************************************************************)
(* markdown-converter.ts: replaceImageUrls.  The mapping is the sequence   *)
(* of the entries of the Map, in iteration order.                          *)
(***************************************************************************)

\* The characters localPath.replace(/[.*+?^${}()|[\]\\]/g, '\\$&') escapes.
RegExpSpecials ==
    {".", "*", "+", "?", "^", "$", "{", "}", "(", ")", "|", "[", "]", "\\"}

RECURSIVE escapeRegExp(_)
escapeRegExp(path) ==
    IF path = <<>> THEN <<>>
    ELSE (IF Head(path) \in RegExpSpecials THEN <<"\\", Head(path)>>
          ELSE <<Head(path)>>)
         \o escapeRegExp(Tail(path))

\* new RegExp on the escaped path: an escaped character stands for itself,
\* a bare dot for any character but a line terminator, any other character
\* for itself.
RECURSIVE AtomsOf(_)
AtomsOf(pattern) ==
    IF pattern = <<>> THEN <<>>
    ELSE IF Head(pattern) = "\\" /\ Len(pattern) >= 2
    THEN <<[any |-> FALSE, char |-> pattern[2]]>> \o AtomsOf(Drop(pattern, 3))
    ELSE <<[any |-> Head(pattern) = ".", char |-> Head(pattern)]>>
         \o AtomsOf(Tail(pattern))

AtomMatches(atom, c) ==
    IF atom.any THEN c \notin {"\n", "\r"} ELSE c = atom.char

Quotes == {"\"", "'"}

SrcEquals == <<"s", "r", "c", "=">>

\* The regular expression src=["']<path>["'] matches at position i.
srcRegex(s, i, atoms) ==
    /\ i + Len(atoms) + 5 <= Len(s)
    /\ StartsWithAt(s, i, SrcEquals)
    /\ s[i + 4] \in Quotes
    /\ \A j \in 1..Len(atoms) : AtomMatches(atoms[j], s[i + 4 + j])
    /\ s[i + Len(atoms) + 5] \in Quotes

\* The replacement patterns of String.prototype.replace: $$, $& and $'
\* (the regular expression has no groups, so $1 and the like stay as they
\* are; the pattern for the text before the match is written with a
\* backquote, a character no URL of the model holds).  The match is at
\* position i of s.
RECURSIVE GetSubstitution(_, _, _, _)
GetSubstitution(s, i, matched, replacement) ==
    IF replacement = <<>> THEN <<>>
    ELSE IF Head(replacement) = "$" /\ Len(replacement) >= 2
            /\ replacement[2] \in {"$", "&", "'"}
    THEN (IF replacement[2] = "$" THEN <<"$">>
          ELSE IF replacement[2] = "&" THEN matched
          ELSE Drop(s, i + Len(matched)))
         \o GetSubstitution(s, i, matched, Drop(replacement, 3))
    ELSE <<Head(replacement)>>
         \o GetSubstitution(s, i, matched, Tail(replacement))

\* result.replace(regex, replacement) with the g flag, from position from on.
RECURSIVE replaceFrom(_, _, _, _)
replaceFrom(s, from, atoms, replacement) ==
    LET found == {k \in from..Len(s) : srcRegex(s, k, atoms)}
    IN  IF found = {} THEN Drop(s, from)
        ELSE LET i == MinOf(found)
                 matched == SubSeq(s, i, i + Len(atoms) + 5)
             IN  SubSeq(s, from, i - 1)
                 \o GetSubstitution(s, i, matched, replacement)
                 \o replaceFrom(s, i + Len(matched), atoms, replacement)

\* A replace without the g flag: the first match only.
replaceEntry_FirstOnly(result, localPath, ghostUrl) ==
    LET atoms == AtomsOf(escapeRegExp(localPath))
        found == {k \in 1..Len(result) : srcRegex(result, k, atoms)}
        i == MinOf(found)
        matched == SubSeq(result, i, i + Len(atoms) + 5)
    IN  IF found = {} THEN result
        ELSE SubSeq(result, 1, i - 1)
             \o GetSubstitution(result, i, matched,
                                SrcEquals \o <<"\"">> \o ghostUrl \o <<"\"">>)
             \o Drop(result, i + Len(matched))

\* The body of the loop of replaceImageUrls, for one entry of the mapping.
replaceEntry(result, localPath, ghostUrl) ==
    replaceFrom(result, 1, AtomsOf(escapeRegExp(localPath)),
                SrcEquals \o <<"\"">> \o ghostUrl \o <<"\"">>)

RECURSIVE replaceImageUrlsFrom(_, _, _)
replaceImageUrlsFrom(result, map, k) ==
    IF k > Len(map) THEN result
    ELSE replaceImageUrlsFrom(replaceEntry(result, map[k].key, map[k].value),
                              map, k + 1)

replaceImageUrls(h, map) == replaceImageUrlsFrom(h, map, 1)

(***************************************************************************)
(* The HTML texts replaceImageUrls is run on: a text is a sequence of at   *)
(* most MaxHtmlParts pieces; a piece that is an image has a src attribute  *)
(* (attr) holding path, between the text before it and the text after it.  *)
(***************************************************************************)
MaxHtmlParts == 2

MaxEntries == 2

HtmlPieces ==
    <<
      [pre |-> <<"<", "i", "m", "g", " ">>,
       attr |-> <<"s", "r", "c", "=", "\"", "p", "\"">>,
       post |-> <<">">>,
       path |-> <<"p">>],
      [pre |-> <<"<", "i", "m", "g", " ">>,
       attr |-> <<"s", "r", "c", "=", "'", "p", "'">>,
       post |-> <<">">>,
       path |-> <<"p">>],
      [pre |-> <<"<", "i", "m", "g", " ">>,
       attr |-> <<"s", "r", "c", "=", "\"", "q", "\"">>,
       post |-> <<">">>,
       path |-> <<"q">>],
      [pre |-> <<"<", "i", "m", "g", " ">>,
       attr |-> <<"s", "r", "c", "=", "\"", "p", ".", "q", "\"">>,
       post |-> <<">">>,
       path |-> <<"p", ".", "q">>],
      [pre |-> <<"<", "i", "m", "g", " ">>,
       attr |-> <<"s", "r", "c", "=", "\"", "p", "x", "q", "\"">>,
       post |-> <<">">>,
       path |-> <<"p", "x", "q">>],
      [pre |-> <<"<", "i", "m", "g", " ">>,
       attr |-> <<"s", "r", "c", "=", "\"", "p", "\"">>,
       post |-> <<" ", "a", "l", "t", "=", "\"", "p", "\"", ">">>,
       path |-> <<"p">>],
      [pre |-> <<"x">>,
       attr |-> <<>>,
       post |-> <<>>,
       path |-> <<>>],
      [pre |-> <<"<", "c", "o", "d", "e", ">", "s", "r", "c", "=", "\"", "p", "\"", "<", "/", "c", "o", "d", "e", ">">>,
       attr |-> <<>>,
       post |-> <<>>,
       path |-> <<>>],
      [pre |-> <<"<", "i", "m", "g", " ", "d", "a", "t", "a", "-", "s", "r", "c", "=", "\"", "p", "\"", ">">>,
       attr |-> <<>>,
       post |-> <<>>,
       path |-> <<>>]
    >>

HtmlPieceText(n) == HtmlPieces[n].pre \o HtmlPieces[n].attr \o HtmlPieces[n].post

RECURSIVE HtmlOf(_)
HtmlOf(ps) ==
    IF Len(ps) = 0 THEN <<>> ELSE HtmlPieceText(Head(ps)) \o HtmlOf(Tail(ps))

HtmlTexts == UNION {[1..n -> 1..Len(HtmlPieces)] : n \in 0..MaxHtmlParts}

\* The local paths of the mapping and the URLs they are mapped to: a URL
\* that ends with the name of the file, a URL that is itself a local path,
\* a URL that holds a replacement pattern.
LocalPaths == {<<"p">>, <<"q">>, <<"p", ".", "q">>}

RemoteUrls == {<<"u", "/", "p">>, <<"q">>, <<"$", "&">>}

\* A Map has one entry per key.
UrlMaps ==
    {m \in UNION {[1..n -> [key : LocalPaths, value : RemoteUrls]] :
                  n \in 0..MaxEntries} :
        \A j, k \in 1..Len(m) : m[j].key = m[k].key => j = k}

InitReplace ==
    /\ parts \in HtmlTexts
    /\ markdown = <<>>
    /\ conv = NoResult
    /\ frontmatter = NoFrontmatter
    /\ defaultStatus = "draft"
    /\ now = 1
    /\ meta = NoResult
    /\ modal = NoModal
    /\ html = HtmlOf(parts)
    /\ urlMap \in UrlMaps
    /\ replaced = NoResult
    /\ stripResult = NoResult
    /\ plugin = NoPlugin
    /\ api = NoResult
    /\ invocations = <<>>

RewriteHtml ==
    /\ replaced = NoResult
    /\ replaced' = [html |-> replaceImageUrls(html, urlMap)]
    /\ UNCHANGED <<parts, markdown, conv, frontmatter, defaultStatus, now, meta,
                   modal, html, urlMap, stripResult, plugin, api,
                   invocations>>

NextReplace == RewriteHtml

SpecReplace == InitReplace /\ [][NextReplace]_vars

(***************************************************************************)
(* Claims about replaceImageUrls                                           *)
(***************************************************************************)
Rewritten == replaced # NoResult

Keys == {urlMap[k].key : k \in 1..Len(urlMap)}

Values == {urlMap[k].value : k \in 1..Len(urlMap)}

\* The images of the text and the paths their src attributes refer to.
ImageParts == {k \in 1..Len(parts) : HtmlPieces[parts[k]].attr # <<>>}

ReferencedPaths == {HtmlPieces[parts[k]].path : k \in ImageParts}

\* The text with every src attribute whose path is a key rewritten on its
\* own, and everything else as it is.
RECURSIVE Framed(_)
Framed(ps) ==
    IF Len(ps) = 0 THEN <<>>
    ELSE LET piece == HtmlPieces[Head(ps)]
         IN  piece.pre
             \o (IF piece.attr # <<>> /\ piece.path \in Keys
                 THEN replaceImageUrls(piece.attr, urlMap) ELSE piece.attr)
             \o piece.post
             \o Framed(Tail(ps))

SrcAttribute(path, quote) == SrcEquals \o <<quote>> \o path \o <<quote>>

C15_OnlyMappedSrcChange ==
    Rewritten =>
        /\ replaced.html = Framed(parts)
        /\ urlMap = <<>> => replaced.html = html

(***************************************************************************)
(* The texts stripFrontmatter is run on: a text is a sequence of at most   *)
(* MaxLines lines.  A line of the table comes with its line terminator,    *)
(* if it has one (a line without one can only be the last); dashes tells   *)
(* that the line is exactly ---.                                           *)
(***************************************************************************)
MaxLines == 4

FrontmatterLines ==
    <<
      [text |-> <<"-", "-", "-", "\n">>, dashes |-> TRUE, terminated |-> TRUE],
      [text |-> <<"-", "-", "-", "\r", "\n">>, dashes |-> TRUE,
       terminated |-> TRUE],
      [text |-> <<"-", "-", "-">>, dashes |-> TRUE, terminated |-> FALSE],
      [text |-> <<"t", "\n">>, dashes |-> FALSE, terminated |-> TRUE],
      [text |-> <<"\n">>, dashes |-> FALSE, terminated |-> TRUE],
      [text |-> <<"-", "-", "-", "x", "\n">>, dashes |-> FALSE,
       terminated |-> TRUE],
      [text |-> <<"x">>, dashes |-> FALSE, terminated |-> FALSE]
    >>

RECURSIVE LinesText(_)
LinesText(ps) ==
    IF Len(ps) = 0 THEN <<>>
    ELSE FrontmatterLines[Head(ps)].text \o LinesText(Tail(ps))

LineTexts ==
    {ps \in UNION {[1..n -> 1..Len(FrontmatterLines)] : n \in 0..MaxLines} :
        \A k \in 1..(Len(ps) - 1) : FrontmatterLines[ps[k]].terminated}

InitFrontmatter ==
    /\ parts \in LineTexts
    /\ markdown = LinesText(parts)
    /\ conv = NoResult
    /\ frontmatter = NoFrontmatter
    /\ defaultStatus = "draft"
    /\ now = 1
    /\ meta = NoResult
    /\ modal = NoModal
    /\ html = <<>>
    /\ urlMap = <<>>
    /\ replaced = NoResult
    /\ stripResult = NoResult
    /\ plugin = NoPlugin
    /\ api = NoResult
    /\ invocations = <<>>

StripNote ==
    /\ stripResult = NoResult
    /\ stripResult' = stripFrontmatter(markdown)
    /\ UNCHANGED <<parts, markdown, conv, frontmatter, defaultStatus, now, meta,
                   modal, html, urlMap, replaced, plugin, api,
                   invocations>>

NextFrontmatter == StripNote

SpecFrontmatter == InitFrontmatter /\ [][NextFrontmatter]_vars

(***************************************************************************)
(* Claims about stripFrontmatter                                           *)
(***************************************************************************)
Stripped == stripResult # NoResult

\* The text opens with a line of exactly ---.
OpensBlock ==
    /\ Len(parts) >= 1
    /\ FrontmatterLines[parts[1]].dashes
    /\ FrontmatterLines[parts[1]].terminated

\* The lines of exactly --- after the first line.
ClosingLines == {k \in 2..Len(parts) : FrontmatterLines[parts[k]].dashes}

WellFormedBlock == OpensBlock /\ ClosingLines # {}

\* The block: the lines up to the first closing line; the rest of the text.
BlockText == LinesText(SubSeq(parts, 1, MinOf(ClosingLines)))

AfterBlock == LinesText(SubSeq(parts, MinOf(ClosingLines) + 1, Len(parts)))

\* C16: for a text that begins with a well-formed front-matter block (a
\* first line of exactly ---, any content, a closing line of exactly ---
\* with or without its newline), stripFrontmatter returns the text without
\* the block and the length of the block; a line that merely starts with
\* --- does not end the block.
C16_BlockRemoved ==
    (Stripped /\ WellFormedBlock) =>
        /\ stripResult.content = AfterBlock
        /\ stripResult.frontmatterEndIndex = Len(BlockText)
        /\ markdown = BlockText \o stripResult.content

\* C17: a text without a leading line of exactly ---, or whose leading ---
\* line has no closing line of exactly ---, comes back unchanged, with
\* frontmatterEndIndex 0.
C17_NoBlockUnchanged ==
    (Stripped /\ ~WellFormedBlock) =>
        /\ stripResult.content = markdown
        /\ stripResult.frontmatterEndIndex = 0

(***************************************************************************)
(* Claims about the rewriting of the Obsidian syntax.  The mentions are    *)
(* those of the pieces: the path of an embed and the target of a link hold *)
(* no bracket and no bar, as the names of the files of a vault.            *)
(***************************************************************************)

\* What the rewriting makes of a piece: an embed becomes an image in
\* standard syntax, a wiki link the text it shows, anything else stays.
ImageSyntax(n) ==
    <<"!", "[">> \o Pieces[n].alt \o <<"]", "(">> \o Pieces[n].path \o <<")">>

EmbedNormalized(n) ==
    IF Pieces[n].kind = "embed" THEN ImageSyntax(n) ELSE Pieces[n].text

PreRendered(n) ==
    IF Pieces[n].kind = "link" THEN Pieces[n].shown ELSE EmbedNormalized(n)

RECURSIVE EmbedNormalizedText(_)
EmbedNormalizedText(ps) ==
    IF Len(ps) = 0 THEN <<>>
    ELSE EmbedNormalized(Head(ps)) \o EmbedNormalizedText(Tail(ps))

RECURSIVE PreRenderedText(_)
PreRenderedText(ps) ==
    IF Len(ps) = 0 THEN <<>>
    ELSE PreRendered(Head(ps)) \o PreRenderedText(Tail(ps))

\* The embed mentions and the wiki links that are still in the text after
\* the deletion of the featured line.
Surviving(kind) ==
    {k \in 1..Len(Body) :
        /\ Pieces[Body[k]].kind = kind
        /\ Includes(conv.removed, Pieces[Body[k]].text)}

\* What the link pass would make of an embed mention: the mark and the text
\* the link shows.
Flattened(n) ==
    <<"!">> \o (IF Pieces[n].alt = <<>> THEN Pieces[n].path ELSE Pieces[n].alt)

\* C18: the embeds are normalized before the links are flattened: an embed
\* mention that survives the deletion of the featured line is handed to the
\* renderer as an image in standard syntax, never flattened to plain text,
\* and the link pass leaves the text the embed pass produced as it is.
C18_EmbedsBeforeLinks ==
    Converted =>
        \A k \in Surviving("embed") :
            /\ Includes(conv.embedded, ImageSyntax(Body[k]))
            /\ Includes(conv.processed, ImageSyntax(Body[k]))
            /\ ~Includes(conv.processed, Flattened(Body[k]))
            /\ convertWikiLinks(ImageSyntax(Body[k])) = ImageSyntax(Body[k])

\* An embed mention and a wiki link, both handed on.
C18_Witness ==
    /\ Converted
    /\ Surviving("embed") # {}
    /\ Surviving("link") # {}

C20_LinksFlattened ==
    Converted =>
        /\ \A k \in Surviving("link") :
              ~Includes(conv.processed, Pieces[Body[k]].text)
        /\ conv.featuredImage = Null =>
              conv.processed = PreRenderedText(Body)

\* A link with a shown text and a link without one were flattened, next to
\* other text.
C20_Witness ==
    /\ Converted
    /\ conv.featuredImage = Null
    /\ \E k \in Surviving("link") : Pieces[Body[k]].shown = <<"S">>
    /\ \E k \in Surviving("link") : Pieces[Body[k]].shown = <<"L">>
    /\ \E k \in 1..Len(Body) : Pieces[Body[k]].kind = "text"

\* The embed mentions of the note, by whether the path ends with a dot and
\* an extension of the list.
EmbedParts(imageFile) ==
    {k \in 1..Len(Body) :
        /\ Pieces[Body[k]].kind = "embed"
        /\ Pieces[Body[k]].imageFile = imageFile}

\* The references the conversion returns.
ReturnedRefs ==
    {conv.images[i] : i \in 1..Len(conv.images)}
        \cup (IF conv.featuredImage = Null THEN {} ELSE {conv.featuredImage})

\* C21: every returned reference with isEmbed true is an embed mention of
\* the note whose path has an extension of the list (the text after the
\* last dot, whatever its case), with the alt of the mention; an embed
\* mention whose path has another extension, or none, is not returned.
C21_EmbedsHaveImageExtension ==
    Converted =>
        /\ \A ref \in ReturnedRefs :
              ref.isEmbed =>
                  \E k \in EmbedParts(TRUE) :
                      /\ ref.path = Pieces[Body[k]].path
                      /\ ref.alt = Pieces[Body[k]].alt
        /\ \A k \in EmbedParts(FALSE), ref \in ReturnedRefs :
              ref.path # Pieces[Body[k]].path

(***************************************************************************)
(* Claims about the status and the date of the payload                     *)
(***************************************************************************)

\* publish() has built the payload of the current attempt.
PayloadBuilt == modal.pc # "none" /\ modal.payload # NoResult

\* The front matter names a date in the future, under publish_date or date.
FutureDate == DateAfter(NewDate(scheduledDateOf(frontmatter)), now)

\* C22: when the front matter has a future publish_date (or date) and the
\* user presses Publish without editing any field of the form, the payload
\* has the status scheduled and its published_at is that date.
C22_FrontmatterDateScheduled ==
    (PayloadBuilt /\ FutureDate /\ ~modal.edited) =>
        /\ modal.payload.status = "scheduled"
        /\ modal.payload.published_at
              = toISOString(NewDate(scheduledDateOf(frontmatter)))

\* The published_at of the payload is a date after the instant of publishing.
FuturePublishedAt ==
    /\ Truthy(modal.payload.published_at)
    /\ DateAfter(NewDate(modal.payload.published_at), now)

\* C30: whatever the user did to the status dropdown and the schedule
\* picker, a payload with status scheduled carries a published_at, and a
\* payload with status draft or published carries no future published_at.
C30_StatusAgreesWithDate ==
    PayloadBuilt =>
        /\ modal.payload.status = "scheduled" =>
              Truthy(modal.payload.published_at)
        /\ modal.payload.status \in {"draft", "published"} =>
              ~FuturePublishedAt

(***************************************************************************)
(* Claims about archiving, the buttons and the order of the uploads        *)
(***************************************************************************)

\* archiveNote has been started or has called the vault.
ArchiveStarted == plugin.pending \/ plugin.calls # <<>>

\* The current attempt has ended in a failure.
AttemptFailed == modal.outcome \in {"imageFailed", "postFailed", "thrown"}

\* C23: the note is moved to the archive only after createPost returned
\* success: an attempt that failed is followed by no createFolder and no
\* renameFile, and with an empty archive folder setting the vault is never
\* called.
C23_ArchivedOnlyAfterSuccess ==
    /\ ArchiveStarted => modal.outcome = "success" /\ CallsOf("createPost") # {}
    /\ AttemptFailed => ~ArchiveStarted
    /\ plugin.archiveFolder = "" => plugin.calls = <<>>

\* The note was moved into a folder that archiveNote created, in the second
\* attempt.
C23_Witness ==
    /\ modal.attempts = 2
    /\ modal.outcome = "success"
    /\ plugin.calls = <<Call("createFolder", "Published", TRUE),
                        Call("renameFile", "Published", TRUE)>>

\* An empty archive folder setting, after a successful attempt.
C23_WitnessNoFolder ==
    /\ modal.outcome = "success"
    /\ plugin.archiveFolder = ""
    /\ ~plugin.pending

\* publish() has been called and has not returned.
InFlight == modal.pc \in {"uploading", "replacing", "posting", "awaiting"}

\* C26: at most one publish attempt is in flight; while it is, both buttons
\* are disabled; an attempt that fails, by an image, by createPost or by an
\* exception, leaves the buttons enabled and the publish button labelled
\* 'Publish'; on success the modal is closed and onSuccess was called once.
C26_OneAttemptAtATime ==
    /\ modal.inFlight <= 1
    /\ InFlight => modal.inFlight = 1 /\ ~modal.buttonsEnabled
    /\ AttemptFailed =>
          /\ modal.inFlight = 0
          /\ modal.pc = "idle"
          /\ modal.buttonsEnabled
          /\ modal.label = "Publish"
    /\ modal.outcome = "success" <=> modal.pc = "closed"
    /\ modal.onSuccessCalls = (IF modal.pc = "closed" THEN 1 ELSE 0)

\* An attempt that failed, followed by one that succeeded.
C26_Witness ==
    /\ modal.attempts = 2
    /\ modal.pc = "closed"
    /\ Len(modal.allImages) = 2
    /\ plugin.pending

\* An attempt has ended in an exception.
C26_WitnessThrown == modal.outcome = "thrown" /\ modal.buttonsEnabled

\* The calls of the current attempt that concern an image, in their order.
ImageCalls ==
    SelectSeq(modal.calls,
              LAMBDA c : c.op \in {"resolveImagePath", "readBinary",
                                   "uploadImage"})

\* The calls of one operation in the current attempt, in their order.
CallSeq(op) == SelectSeq(modal.calls, LAMBDA c : c.op = op)

\* The images of the note in the order of the claim: the featured image,
\* then the content images as extracted.
ExpectedOrder == modal.featuredImage \o modal.images

\* The paths of a sequence of calls are the first paths of ExpectedOrder.
IsPrefixOfExpected(calls) ==
    /\ Len(calls) <= Len(ExpectedOrder)
    /\ \A k \in 1..Len(calls) : calls[k].path = ExpectedOrder[k]

\* C27: the images are uploaded one after the other, the featured image
\* first and then the content images in the order of extraction; the first
\* failure ends the sequence, and a later attempt starts again from the
\* first image.
C27_UploadsInOrder ==
    modal.pc # "none" =>
        /\ IsPrefixOfExpected(CallSeq("resolveImagePath"))
        /\ IsPrefixOfExpected(CallSeq("uploadImage"))
        /\ \A k \in 1..Len(ImageCalls) :
              ~ImageCalls[k].ok => k = Len(ImageCalls)
        /\ \A k \in 1..Len(ImageCalls) :
              (ImageCalls[k].op = "resolveImagePath" /\ k > 1) =>
                  /\ ImageCalls[k - 1].op = "uploadImage"
                  /\ ImageCalls[k - 1].ok
        /\ modal.pc = "uploading" =>
              Len(CallSeq("uploadImage")) = modal.i
        /\ modal.pc \in {"replacing", "posting", "awaiting", "closed"} =>
              Len(CallSeq("uploadImage")) = Len(ExpectedOrder)

\* A second attempt has uploaded a featured image and then a content image
\* with another path.
C27_Witness ==
    /\ modal.attempts = 2
    /\ Len(modal.featuredImage) = 1
    /\ Len(modal.images) = 1
    /\ modal.featuredImage[1] # modal.images[1]
    /\ Len(CallSeq("uploadImage")) = 2
    /\ modal.pc = "replacing"

(***************************************************************************)
(* Claims about the deletion of the featured line                          *)
(***************************************************************************)

\* The lines of the stripped content, and the place of the first non-blank
\* one among them.
StrippedLines == SplitLines(conv.stripped)

FirstContentLine == FirstNonEmptyFrom(StrippedLines, 1) + 1

\* The lines without the one at place n.
WithoutLine(lines, n) ==
    SubSeq(lines, 1, n - 1) \o SubSeq(lines, n + 1, Len(lines))

\* C25: whenever featuredImage is not null, the deletion of the featured
\* line removed exactly one line, the first non-blank line of the stripped
\* content, and that line contained the originalSyntax of the featured
\* reference: the syntax of a promoted image never stays in the text.
C25_FeaturedLineRemoved ==
    (Converted /\ conv.featuredImage # Null) =>
        /\ FirstContentLine \in 1..Len(StrippedLines)
        /\ Includes(StrippedLines[FirstContentLine],
                    conv.featuredImage.originalSyntax)
        /\ conv.removed
              = JoinLines(WithoutLine(StrippedLines, FirstContentLine))

(***************************************************************************)
(* Claims about the order of the entries of the mapping                    *)
(***************************************************************************)

\* A src attribute holding exactly path starts at position i of s.
HoldsPath(s, i, path) ==
    \E open \in Quotes, close \in Quotes :
        StartsWithAt(s, i, SrcEquals \o <<open>> \o path \o <<close>>)

\* The simultaneous substitution: every src attribute of s that holds a key
\* of the mapping becomes src="<the URL of that key>", in one pass over s.
RECURSIVE SimultaneousFrom(_, _, _)
SimultaneousFrom(s, from, map) ==
    LET found == {k \in from..Len(s) :
                     \E e \in 1..Len(map) : HoldsPath(s, k, map[e].key)}
    IN  IF found = {} THEN Drop(s, from)
        ELSE LET i == MinOf(found)
                 e == CHOOSE e \in 1..Len(map) : HoldsPath(s, i, map[e].key)
             IN  SubSeq(s, from, i - 1)
                 \o SrcAttribute(map[e].value, "\"")
                 \o SimultaneousFrom(s, i + Len(map[e].key) + 6, map)

\* The mappings with the entries of map in another order.
Reorderings(map) ==
    {[k \in 1..Len(map) |-> map[f[k]]] :
        f \in {g \in [1..Len(map) -> 1..Len(map)] :
                  \A j, k \in 1..Len(map) : g[j] = g[k] => j = k}}

\* C29: the result of replaceImageUrls is the same for every order of the
\* entries of the mapping and is the simultaneous substitution: a URL
\* written for one entry is not rewritten by another entry.
C29_OrderIndependent ==
    Rewritten =>
        /\ \A other \in Reorderings(urlMap) :
              replaceImageUrls(html, other) = replaced.html
        /\ replaced.html = SimultaneousFrom(html, 1, urlMap)

(***************************************************************************)
(* ghost-api.ts: GhostAPI.  A call of testConnection, createPost or        *)
(* uploadImage signs a token from the API key, sends one request and reads *)
(* the response.  The network gives the transport (requestUrl throws or    *)
(* answers), the status and the shape of the JSON body:                    *)
(*   notJson    response.json throws                                       *)
(*   null       the body is null                                           *)
(*   empty      {}                                                         *)
(*   emptyList  the list of the endpoint is empty (posts, images)          *)
(*   bareItem   the list holds an object without url; site without title   *)
(*   item       the list holds the post or the image; site with its title  *)
(*   errors     {errors: [{message}]}                                      *)
(***************************************************************************)

\* The characters of an API key up to its first colon, and between its first
\* and its second colon: const [id, secret] = apiKey.split(':')
ColonsOf(apiKey) == {k \in 1..Len(apiKey) : apiKey[k] = ":"}

idOf(apiKey) ==
    IF ColonsOf(apiKey) = {} THEN apiKey
    ELSE SubSeq(apiKey, 1, MinOf(ColonsOf(apiKey)) - 1)

\* undefined when the key has no colon, written as the empty string: both
\* are falsy.
secretOf(apiKey) ==
    IF ColonsOf(apiKey) = {} THEN <<>>
    ELSE LET first == MinOf(ColonsOf(apiKey))
             later == {k \in ColonsOf(apiKey) : k > first}
         IN  SubSeq(apiKey, first + 1,
                    IF later = {} THEN Len(apiKey) ELSE MinOf(later) - 1)

\* if (!id || !secret) throw new Error('Invalid API key format...')
generateGhostTokenThrows(apiKey) ==
    idOf(apiKey) = <<>> \/ secretOf(apiKey) = <<>>

Thrown(message) == [threw |-> TRUE, message |-> message]

\* request(): the token is signed first, then requestUrl is called.
request(apiKey, transport, status, body) ==
    IF generateGhostTokenThrows(apiKey) THEN Thrown("Invalid API key format")
    ELSE IF transport = "throws" THEN Thrown("net::ERR")
    ELSE [threw |-> FALSE, status |-> status, body |-> body]

\* A catch clause that throws the error again.
Caught_Rethrown(message) == [rejected |-> TRUE]

\* The catch clause of the three methods.
Caught(message) ==
    [rejected |-> FALSE, success |-> FALSE, error |-> message]

Succeeded(value) == [rejected |-> FALSE, success |-> TRUE, value |-> value]

\* response.status >= 200 && response.status < 300
IsOk(status) == status >= 200 /\ status < 300

\* The else branch of the three methods:
\* errorData.errors?.[0]?.message || `HTTP ${response.status}`
errorOf(response) ==
    IF response.body = "notJson" THEN Caught("SyntaxError")
    ELSE IF response.body = "null" THEN Caught("TypeError")
    ELSE IF response.body = "errors" THEN Caught("message")
    ELSE Caught("HTTP status")

testConnection(apiKey, transport, status, body) ==
    LET response == request(apiKey, transport, status, body)
    IN  IF response.threw THEN Caught(response.message)
        ELSE IF ~IsOk(response.status) THEN errorOf(response)
        ELSE IF response.body = "notJson" THEN Caught("SyntaxError")
        ELSE IF response.body = "null" THEN Caught("TypeError")
        ELSE IF response.body = "item" THEN Succeeded("title")
        ELSE Succeeded("Unknown Site")

\* post: data.posts[0] throws when the body has no posts and is undefined
\* when posts is empty.
createPost(apiKey, transport, status, body) ==
    LET response == request(apiKey, transport, status, body)
    IN  IF response.threw THEN Caught(response.message)
        ELSE IF ~IsOk(response.status) THEN errorOf(response)
        ELSE IF response.body = "notJson" THEN Caught("SyntaxError")
        ELSE IF response.body \in {"null", "empty", "errors"}
        THEN Caught("TypeError")
        ELSE IF response.body = "emptyList" THEN Succeeded("undefined")
        ELSE Succeeded(response.body)

\* An uploadImage that takes every 2xx response as an upload.
uploadImage_AnyOk(apiKey, transport, status, body) ==
    LET response == request(apiKey, transport, status, body)
    IN  IF response.threw THEN Caught(response.message)
        ELSE IF ~IsOk(response.status) THEN errorOf(response)
        ELSE IF response.body = "notJson" THEN Caught("SyntaxError")
        ELSE IF response.body = "null" THEN Caught("TypeError")
        ELSE IF response.body = "item" THEN Succeeded("url")
        ELSE Succeeded("undefined")

\* uploadImage builds the token and the multipart body and calls requestUrl
\* itself; data.images && data.images.length > 0 decides on a 2xx response.
uploadImage(apiKey, transport, status, body) ==
    LET response == request(apiKey, transport, status, body)
    IN  IF response.threw THEN Caught(response.message)
        ELSE IF ~IsOk(response.status) THEN errorOf(response)
        ELSE IF response.body = "notJson" THEN Caught("SyntaxError")
        ELSE IF response.body = "null" THEN Caught("TypeError")
        ELSE IF response.body \in {"empty", "emptyList", "errors"}
        THEN [rejected |-> FALSE, success |-> FALSE,
              error |-> "No image URL returned from Ghost"]
        ELSE IF response.body = "item" THEN Succeeded("url")
        ELSE Succeeded("undefined")

\* The API keys of the settings: id:secret, without a colon, without an id,
\* without a secret, with a third segment.
ApiKeys ==
    {<<"i", ":", "s">>, <<"i", "s">>, <<":", "s">>, <<"i", ":">>,
     <<"i", ":", "s", ":", "x">>}

Transports == {"throws", "answers"}

StatusCodes == {200, 201, 299, 300, 404, 500}

Bodies ==
    {"notJson", "null", "empty", "emptyList", "bareItem", "item", "errors"}

Methods == {"testConnection", "createPost", "uploadImage"}

\* The result of a method for what the network does.
resultOf(method, apiKey, transport, status, body) ==
    CASE method = "testConnection" ->
             testConnection(apiKey, transport, status, body)
      [] method = "createPost" -> createPost(apiKey, transport, status, body)
      [] method = "uploadImage" -> uploadImage(apiKey, transport, status, body)

InitApi ==
    /\ parts = <<>>
    /\ markdown = <<>>
    /\ conv = NoResult
    /\ frontmatter = NoFrontmatter
    /\ defaultStatus = "draft"
    /\ now = 1
    /\ meta = NoResult
    /\ modal = NoModal
    /\ html = <<>>
    /\ urlMap = <<>>
    /\ replaced = NoResult
    /\ stripResult = NoResult
    /\ plugin = NoPlugin
    /\ api \in [apiKey : ApiKeys, method : {"none"}]
    /\ invocations = <<>>

\* One call of a method of the GhostAPI object, and the promise it returns
\* settled.
CallApi(method) ==
    /\ \E transport \in Transports, status \in StatusCodes, body \in Bodies :
          api' = [apiKey |-> api.apiKey,
                  method |-> method,
                  transport |-> transport,
                  status |-> status,
                  body |-> body,
                  result |-> resultOf(method, api.apiKey, transport, status,
                                      body)]
    /\ UNCHANGED <<parts, markdown, conv, frontmatter, defaultStatus, now, meta,
                   modal, html, urlMap, replaced, stripResult, plugin,
                   invocations>>

TestConnection == CallApi("testConnection")

SendPost == CallApi("createPost")

SendImage == CallApi("uploadImage")

NextApi ==
    \/ TestConnection
    \/ SendPost
    \/ SendImage

SpecApi == InitApi /\ [][NextApi]_vars

(***************************************************************************)
(* Claims about the results of the API methods                             *)
(***************************************************************************)
ApiCalled == api.method # "none"

\* The API key is not of the form id:secret: it has no colon, or nothing
\* before or after its colon.
MalformedKey ==
    api.apiKey \in {<<"i", "s">>, <<":", "s">>, <<"i", ":">>}

\* The response of an upload holds no list of images, or an empty one.
NoImagesList ==
    /\ api.method = "uploadImage"
    /\ api.body \in {"null", "empty", "emptyList", "errors", "notJson"}

\* What the claim lists as failures.
ApiFailure ==
    \/ MalformedKey
    \/ api.transport = "throws"
    \/ api.status \notin 200..299
    \/ NoImagesList

\* C28: testConnection, createPost and uploadImage never reject: a malformed
\* API key, a network exception, a status outside 2xx and a 2xx upload
\* response without images give {success: false, error}, and success is
\* true only for a 2xx response (for uploadImage, one with a non-empty list
\* of images).
C28_FailuresAreValues ==
    ApiCalled =>
        /\ ~api.result.rejected
        /\ ApiFailure =>
              /\ ~api.result.success
              /\ api.result.error # ""
        /\ api.result.success =>
              /\ ~MalformedKey
              /\ api.transport = "answers"
              /\ api.status \in 200..299
              /\ api.method = "uploadImage" =>
                    api.body \in {"item", "bareItem"}

\* An upload answered with 2xx and an empty list of images was returned as a
\* failure.
C28_Witness ==
    /\ ApiCalled
    /\ api.method = "uploadImage"
    /\ ~MalformedKey
    /\ api.transport = "answers"
    /\ api.status = 201
    /\ api.body = "emptyList"
    /\ ~api.result.rejected
    /\ ~api.result.success

(***************************************************************************)
(* Repeated invocations of the converter.  convertMarkdownToHtml and       *)
(* replaceImageUrls are synchronous, so an invocation is one step; the     *)
(* caller invokes them in any order, on the notes and HTML texts below,    *)
(* and passes replaceImageUrls the Map it holds in urlMap, which it        *)
(* changes between the invocations.  invocations is the record of the      *)
(* calls: the arguments as they were passed, the arguments as they are     *)
(* after the call, the result.                                             *)
(***************************************************************************)
MaxCalls == 3

\* A note with a featured image and a note with an image, an embed and a
\* wiki link after a line of text.
RepeatNotes == {<<6>>, <<3, 1, 5, 11, 14>>}

\* An HTML text with two images and one without an image.
RepeatHtmls == {<<1, 3>>, <<7>>}

\* A regular expression kept outside the functions, whose lastIndex is left
\* behind the first character by the invocation before.
scanFrom_LastIndexKept(earlier) == IF earlier = <<>> THEN 1 ELSE 2

\* The position the scans of an invocation start at, after the invocations
\* earlier: markdown-converter.ts declares no variable outside its
\* functions and its regular expressions are literals evaluated in each
\* call, so every scan starts at the first character.
scanFrom(earlier) == 1

\* A loop that deletes the entries of the Map it has applied.
mapAfter_Consumed(map) == <<>>

\* The Map after replaceImageUrls: the for...of loop reads its entries only.
mapAfter(map) == map

Invocation(fn, args, after, result) ==
    [fn |-> fn, args |-> args, after |-> after, result |-> result]

InitRepeat ==
    /\ parts = <<>>
    /\ markdown = <<>>
    /\ conv = NoResult
    /\ frontmatter = NoFrontmatter
    /\ defaultStatus = "draft"
    /\ now = 1
    /\ meta = NoResult
    /\ modal = NoModal
    /\ html = <<>>
    /\ urlMap = <<>>
    /\ replaced = NoResult
    /\ stripResult = NoResult
    /\ plugin = NoPlugin
    /\ api = NoResult
    /\ invocations = <<>>

InvokeConvert ==
    /\ Len(invocations) < MaxCalls
    /\ \E note \in RepeatNotes :
          LET text == TextOf(note)
          IN  invocations' =
                  Append(invocations,
                         Invocation("convertMarkdownToHtml",
                                    [markdown |-> text],
                                    [markdown |-> text],
                                    convertMarkdownToHtml(
                                        Drop(text, scanFrom(invocations)))))
    /\ UNCHANGED <<parts, markdown, conv, frontmatter, defaultStatus, now, meta,
                   modal, html, urlMap, replaced, stripResult, plugin, api>>

InvokeReplace ==
    /\ Len(invocations) < MaxCalls
    /\ \E text \in RepeatHtmls :
          LET h == HtmlOf(text)
          IN  invocations' =
                  Append(invocations,
                         Invocation("replaceImageUrls",
                                    [html |-> h, urlMap |-> urlMap],
                                    [html |-> h, urlMap |-> mapAfter(urlMap)],
                                    [html |-> replaceImageUrls(
                                                  Drop(h, scanFrom(invocations)),
                                                  urlMap)]))
    /\ urlMap' = mapAfter(urlMap)
    /\ UNCHANGED <<parts, markdown, conv, frontmatter, defaultStatus, now, meta,
                   modal, html, replaced, stripResult, plugin, api>>

\* The caller sets an entry of its Map between two invocations.
SetEntry ==
    /\ \E key \in {<<"p">>, <<"q">>} :
          urlMap' = MapSet(urlMap, key, <<"u", "/", "p">>)
    /\ urlMap' # urlMap
    /\ UNCHANGED <<parts, markdown, conv, frontmatter, defaultStatus, now, meta,
                   modal, html, replaced, stripResult, plugin, api,
                   invocations>>

NextRepeat ==
    \/ InvokeConvert
    \/ InvokeReplace
    \/ SetEntry

SpecRepeat == InitRepeat /\ [][NextRepeat]_vars

(***************************************************************************)
(* Claims about repeated invocations                                       *)
(***************************************************************************)

\* Invocations i and j are of the same function on equal arguments.
SameCall(i, j) ==
    /\ invocations[i].fn = invocations[j].fn
    /\ invocations[i].args = invocations[j].args

C24_WitnessConvert ==
    /\ Len(invocations) = 3
    /\ SameCall(1, 3)
    /\ invocations[1].fn = "convertMarkdownToHtml"
    /\ invocations[2].fn = "replaceImageUrls"
    /\ invocations[1].result.featuredImage # Null

====
